---- MODULE Spec2Model ----
(***************************************************************************)
(* Model of src/index.tsx: the tolerant CSV parser (parseCSV and its inner *)
(* splitRow / header detection / findIndex / record builder), formatDate,  *)
(* and the App component's fetchData.                                       *)
(*                                                                          *)
(* Strings are sequences of one-character strings, so that every string    *)
(* operation of the source (trim, split, replace, includes, substring) is   *)
(* computed character by character.  Indices keep the source's 0-based      *)
(* values; a sequence s is read at source index i as s[i + 1].              *)
(***************************************************************************)
EXTENDS Integers, Sequences, FiniteSets, TLC

VARIABLES
  pc,         \* which operation the harness applies next: "call" or "done"
  row,        \* splitRow: the line given to it
  cells,      \* splitRow: the array it returned
  text,       \* parseCSV: its argument
  parsed,     \* parseCSV: what it returned (or that it threw)
  dateStr,    \* formatDate: its argument
  shown,      \* formatDate: what it returned
  data,       \* App: useState<Member[]>
  lastSync,   \* App: useState<string>
  loading,    \* App: useState(false)
  storage,    \* localStorage item 'member_db_data_cloud' (NoItem when absent)
  runs,       \* App: where each fetchData invocation stands
  lastEnded   \* history: how the fetchData invocation that ended last ended

appVars == <<data, lastSync, loading, storage, runs, lastEnded>>
callVars == <<pc, row, cells, text, parsed, dateStr, shown>>
vars == <<pc, row, cells, text, parsed, dateStr, shown,
          data, lastSync, loading, storage, runs, lastEnded>>

(***************************************************************************)
(* Characters                                                               *)
(***************************************************************************)
BOM == "\\uFEFF"
QUOTE == "\""
COMMA == ","
CR == "\r"
LF == "\n"

\* The characters String.prototype.trim removes (those the model's inputs use).
WhiteSpace == {" ", "\t", CR, LF, BOM}

LowerCase == <<"a","b","c","d","e","f","g","h","i","j","k","l","m",
               "n","o","p","q","r","s","t","u","v","w","x","y","z">>
UpperCase == <<"A","B","C","D","E","F","G","H","I","J","K","L","M",
               "N","O","P","Q","R","S","T","U","V","W","X","Y","Z">>
Digits == {"0","1","2","3","4","5","6","7","8","9"}
LowerSet == {LowerCase[i] : i \in 1..26}
UpperSet == {UpperCase[i] : i \in 1..26}
AlnumSet == LowerSet \cup Digits
lowerOf == [u \in UpperSet |-> LowerCase[CHOOSE i \in 1..26 : UpperCase[i] = u]]

\* String.prototype.toLowerCase, one character
toLowerChar(c) == IF c \in UpperSet THEN lowerOf[c] ELSE c

toLowerCase(s) == [i \in 1..Len(s) |-> toLowerChar(s[i])]

\* s.replace(/[^a-z0-9]/g, '')
stripNonAlnum(s) == SelectSeq(s, LAMBDA c : c \in AlnumSet)

\* s.replace(/[^0-9]/g, '')
stripNonDigits(s) == SelectSeq(s, LAMBDA c : c \in Digits)

\* c.toLowerCase().replace(/[^a-z0-9]/g, '')
normalize(s) == stripNonAlnum(toLowerCase(s))

\* String.prototype.trim
RECURSIVE trimStart(_)
trimStart(s) ==
  IF s # <<>> /\ Head(s) \in WhiteSpace THEN trimStart(Tail(s)) ELSE s

RECURSIVE trimEnd(_)
trimEnd(s) ==
  IF s # <<>> /\ s[Len(s)] \in WhiteSpace
  THEN trimEnd(SubSeq(s, 1, Len(s) - 1))
  ELSE s

trim(s) == trimEnd(trimStart(s))

\* String.prototype.includes: k occurs in h as a contiguous substring
includes(h, k) ==
  \E i \in 0..(Len(h) - Len(k)) : SubSeq(h, i + 1, i + Len(k)) = k

\* String.prototype.substring(from, to), 0-based, to exclusive
substring(s, from, to) == SubSeq(s, from + 1, to)

(***************************************************************************)
(* parseCSV: splitRow (src/index.tsx 73-93)                                 *)
(***************************************************************************)
\* faulty variant: a doubled quote is taken as an escape outside quotes too
isEscapedQuote_anywhere(r, i, inQuotes) ==
  r[i + 1] = QUOTE /\ i + 2 <= Len(r) /\ r[i + 2] = QUOTE

\* line 79: char === '"' && row[i+1] === '"' && inQuotes  (i is 0-based)
isEscapedQuote(r, i, inQuotes) ==
  r[i + 1] = QUOTE /\ i + 2 <= Len(r) /\ r[i + 2] = QUOTE /\ inQuotes

\* the for loop of lines 77-90, from index i with the loop's locals
RECURSIVE splitRowLoop(_, _, _, _, _)
splitRowLoop(r, i, cell, inQuotes, result) ==
  IF ~(i < Len(r))
  THEN Append(result, trim(cell))                                 \* line 91
  ELSE LET char == r[i + 1] IN
    IF isEscapedQuote(r, i, inQuotes)
    THEN splitRowLoop(r, i + 2, Append(cell, QUOTE), inQuotes, result)
    ELSE IF char = QUOTE
    THEN splitRowLoop(r, i + 1, cell, ~inQuotes, result)
    ELSE IF char = COMMA /\ ~inQuotes
    THEN splitRowLoop(r, i + 1, <<>>, inQuotes, Append(result, trim(cell)))
    ELSE splitRowLoop(r, i + 1, Append(cell, char), inQuotes, result)

splitRow(r) == splitRowLoop(r, 0, <<>>, FALSE, <<>>)

(***************************************************************************)
(* parseCSV: the keyword table (src/index.tsx 99-106)                       *)
(***************************************************************************)
keywords ==
  [ accountName |-> <<
      <<"a","c","c","o","u","n","t","n","a","m","e">>,   \* accountname
      <<"m","e","m","b","e","r","n","a","m","e">>,   \* membername
      <<"c","u","s","t","o","m","e","r","n","a","m","e">>,   \* customername
      <<"n","a","m","e">>,   \* name
      <<"c","l","i","e","n","t">>,   \* client
      <<"f","u","l","l","n","a","m","e">>,   \* fullname
      <<"m","e","m","b","e","r">>,   \* member
      <<"s","u","b","s","c","r","i","b","e","r">>   \* subscriber
    >>,
    accountNumber |-> <<
      <<"a","c","c","o","u","n","t","n","u","m","b","e","r">>,   \* accountnumber
      <<"a","c","c","o","u","n","t","n","o">>,   \* accountno
      <<"a","c","c","n","u","m">>,   \* accnum
      <<"i","d">>,   \* id
      <<"m","e","m","b","e","r","i","d">>,   \* memberid
      <<"a","c","c","#">>,   \* acc#
      <<"a","c","c","o","u","n","t","#">>,   \* account#
      <<"m","e","m","b","e","r","#">>,   \* member#
      <<"r","e","f">>   \* ref
    >>,
    nextDueDate |-> <<
      <<"n","e","x","t","d","u","e","d","a","t","e">>,   \* nextduedate
      <<"d","u","e","d","a","t","e">>,   \* duedate
      <<"n","e","x","t","d","u","e">>,   \* nextdue
      <<"b","i","l","l","i","n","g","d","a","t","e">>,   \* billingdate
      <<"e","x","p","i","r","y">>,   \* expiry
      <<"d","u","e">>   \* due
    >>,
    nextDueAmount |-> <<
      <<"n","e","x","t","d","u","e","a","m","o","u","n","t">>,   \* nextdueamount
      <<"d","u","e","a","m","o","u","n","t">>,   \* dueamount
      <<"a","m","o","u","n","t","d","u","e">>,   \* amountdue
      <<"b","a","l","a","n","c","e">>,   \* balance
      <<"t","o","t","a","l","d","u","e">>,   \* totaldue
      <<"p","a","y","a","b","l","e">>   \* payable
    >>,
    bps |-> <<
      <<"b","p","s">>,   \* bps
      <<"b","r","o","c","h","u","r","e","s","a","l","e","s">>,   \* brochuresales
      <<"s","a","l","e","s">>,   \* sales
      <<"s","a","l","e","s","v","o","l","u","m","e">>,   \* salesvolume
      <<"v","o","l","u","m","e">>,   \* volume
      <<"c","o","m","m","i","s","s","i","o","n">>   \* commission
    >>,
    overdueAmount |-> <<
      <<"o","v","e","r","d","u","e","a","m","o","u","n","t">>,   \* overdueamount
      <<"o","v","e","r","d","u","e">>,   \* overdue
      <<"p","a","s","t","d","u","e">>,   \* pastdue
      <<"a","r","r","e","a","r","s">>,   \* arrears
      <<"d","e","l","i","n","q","u","e","n","t">>,   \* delinquent
      <<"l","a","t","e","f","e","e">>   \* latefee
    >> ]

\* Object.values(keywords).flat(): the six lists in declaration order
flatKeywords ==
  keywords.accountName \o keywords.accountNumber \o keywords.nextDueDate
    \o keywords.nextDueAmount \o keywords.bps \o keywords.overdueAmount

Fields ==
  {"accountName", "accountNumber", "nextDueDate",
   "nextDueAmount", "bps", "overdueAmount"}

(***************************************************************************)
(* parseCSV: preprocessing (src/index.tsx 68-71)                            *)
(***************************************************************************)
\* text.replace(/^\uFEFF/, '')
stripBOM(t) == IF t # <<>> /\ Head(t) = BOM THEN Tail(t) ELSE t

\* cleanText.split(/\r?\n/): i is the 0-based scan position, cur the line
\* being collected, acc the lines already cut
RECURSIVE splitLinesLoop(_, _, _, _)
splitLinesLoop(t, i, cur, acc) ==
  IF ~(i < Len(t))
  THEN Append(acc, cur)
  ELSE IF t[i + 1] = CR /\ i + 2 <= Len(t) /\ t[i + 2] = LF
  THEN splitLinesLoop(t, i + 2, <<>>, Append(acc, cur))
  ELSE IF t[i + 1] = LF
  THEN splitLinesLoop(t, i + 1, <<>>, Append(acc, cur))
  ELSE splitLinesLoop(t, i + 1, Append(cur, t[i + 1]), acc)

splitLines(t) == splitLinesLoop(t, 0, <<>>, <<>>)

\* faulty variant: a whitespace-only line is kept
isNonEmptyLine_untrimmed(line) == Len(line) > 0

\* line => line.trim().length > 0
isNonEmptyLine(line) == Len(trim(line)) > 0

\* const allLines = cleanText.split(/\r?\n/).filter(...)
allLinesOf(t) == SelectSeq(splitLines(stripBOM(t)), isNonEmptyLine)

\* faulty variant: the early return for an input without lines is missing
hasNoLines_never(allLines) == FALSE

\* if (allLines.length < 1) return { members: [], sheetUpdateDate: 'N/A' }
hasNoLines(allLines) == Len(allLines) < 1

\* An array read: arr[i] is undefined outside 0 .. length-1
Undefined == <<"undefined">>
at(arr, i) == IF 0 <= i /\ i < Len(arr) THEN arr[i + 1] ELSE Undefined

NA == <<"N", "/", "A">>
ZERO == <<"0", ".", "0", "0">>

\* faulty variant: no default for an empty value
orElse_noDefault(a, b) == a

\* a || b on strings: the empty string is falsy
orElse(a, b) == IF a # <<>> THEN a ELSE b

\* const sheetUpdateDate = firstRow[0] || 'N/A'   (lines 96-97)
sheetUpdateDateOf(allLines) == orElse(splitRow(allLines[1])[1], NA)

(***************************************************************************)
(* parseCSV: header detection (src/index.tsx 108-121)                       *)
(***************************************************************************)
HeaderWindow == 10

\* splitRow(line).map(c => c.toLowerCase().replace(/[^a-z0-9]/g, ''))
normalizedRow(line) ==
  LET r == splitRow(line) IN [j \in 1..Len(r) |-> normalize(r[j])]

\* row.some(cell => cell.includes(k.replace(/[^a-z0-9]/g, '')))
rowHasKeyword(nrow, k) ==
  \E j \in 1..Len(nrow) : includes(nrow[j], stripNonAlnum(k))

\* the forEach of lines 114-116 over the keywords from position n on
RECURSIVE scoreLoop(_, _, _, _)
scoreLoop(nrow, ks, n, score) ==
  IF n > Len(ks) THEN score
  ELSE scoreLoop(nrow, ks, n + 1,
                 IF rowHasKeyword(nrow, ks[n]) THEN score + 1 ELSE score)

scoreOf(line) == scoreLoop(normalizedRow(line), flatKeywords, 1, 0)

\* faulty variant: a tie replaces the header found so far
beatsMax_orEqual(score, maxScore) == score >= maxScore

\* if (score > maxScore)
beatsMax(score, maxScore) == score > maxScore

\* Math.min(allLines.length, 10)
windowOf(allLines) ==
  IF Len(allLines) < HeaderWindow THEN Len(allLines) ELSE HeaderWindow

\* the for loop of lines 111-121 from row i on
RECURSIVE headerLoop(_, _, _, _)
headerLoop(allLines, i, headerRowIndex, maxScore) ==
  IF ~(i < windowOf(allLines))
  THEN headerRowIndex
  ELSE LET score == scoreOf(allLines[i + 1]) IN
    IF beatsMax(score, maxScore)
    THEN headerLoop(allLines, i + 1, i, score)
    ELSE headerLoop(allLines, i + 1, headerRowIndex, maxScore)

\* let headerRowIndex = 0; let maxScore = -1; for (...)
headerRowIndexOf(allLines) == headerLoop(allLines, 0, 0, -1)

(***************************************************************************)
(* parseCSV: column mapping (src/index.tsx 123-138)                         *)
(***************************************************************************)
\* rawHeaders.map(h => h.toLowerCase().replace(/[^a-z0-9]/g, ''))
headersOf(allLines, headerRowIndex) == normalizedRow(allLines[headerRowIndex + 1])

\* kList.some(k => h === k.replace(/[^a-z0-9]/g, ''))
exactHit(h, kList) == \E n \in 1..Len(kList) : h = stripNonAlnum(kList[n])

\* kList.some(k => h.includes(k.replace(/[^a-z0-9]/g, '')))
substringHit(h, kList) ==
  \E n \in 1..Len(kList) : includes(h, stripNonAlnum(kList[n]))

\* Array.prototype.findIndex: the first 0-based index among the 1-based
\* positions hits, or -1 when there is none
firstIndex(hits) ==
  IF hits = {} THEN -1
  ELSE (CHOOSE j \in hits : \A m \in hits : j <= m) - 1

\* headers.findIndex(h => kList.some(k => h === ...))   (line 126)
exactIndex(headers, kList) ==
  firstIndex({j \in 1..Len(headers) : exactHit(headers[j], kList)})

\* headers.findIndex(h => kList.some(k => h.includes(...)))   (line 128)
substringIndex(headers, kList) ==
  firstIndex({j \in 1..Len(headers) : substringHit(headers[j], kList)})

\* faulty variant: no preference for an exact match
findIndex_substringOnly(headers, kList) == substringIndex(headers, kList)

\* const findIndex = (kList) => { ... }   (lines 125-129)
findIndex(headers, kList) ==
  LET exact == exactIndex(headers, kList) IN
    IF exact # -1 THEN exact ELSE substringIndex(headers, kList)

\* faulty variant: no positional fallback
withFallback_none(idx, dflt) == idx

\* findIndex(k) !== -1 ? findIndex(k) : dflt
withFallback(idx, dflt) == IF idx # -1 THEN idx ELSE dflt

\* const indices = { ... }   (lines 131-138)
indicesOf(headers) ==
  [ accountName   |-> withFallback(findIndex(headers, keywords.accountName), 0),
    accountNumber |-> withFallback(findIndex(headers, keywords.accountNumber), 1),
    nextDueDate   |-> findIndex(headers, keywords.nextDueDate),
    nextDueAmount |-> findIndex(headers, keywords.nextDueAmount),
    bps           |-> findIndex(headers, keywords.bps),
    overdueAmount |-> findIndex(headers, keywords.overdueAmount) ]

(***************************************************************************)
(* parseCSV: record builder (src/index.tsx 140-153)                         *)
(***************************************************************************)
\* const getVal = (idx) => (idx >= 0 && values[idx] !== undefined) ? values[idx] : ''
getVal(values, idx) ==
  IF idx >= 0 /\ at(values, idx) # Undefined THEN values[idx + 1] ELSE <<>>

\* the object literal of lines 143-150 for one data line
memberOf(line, indices) ==
  LET values == splitRow(line) IN
  [ accountName   |-> orElse(getVal(values, indices.accountName), NA),
    accountNumber |-> orElse(getVal(values, indices.accountNumber), NA),
    nextDueDate   |-> orElse(getVal(values, indices.nextDueDate), NA),
    nextDueAmount |-> orElse(getVal(values, indices.nextDueAmount), ZERO),
    bps           |-> orElse(getVal(values, indices.bps), ZERO),
    overdueAmount |-> orElse(getVal(values, indices.overdueAmount), ZERO) ]

\* faulty variant: the slice starts one element early
slice_fromHeader(arr, from) == SubSeq(arr, from, Len(arr))

\* Array.prototype.slice(from)
slice(arr, from) == SubSeq(arr, from + 1, Len(arr))

\* allLines.slice(headerRowIndex + 1).map(line => ...)
membersOf(allLines, headerRowIndex, indices) ==
  LET rest == slice(allLines, headerRowIndex + 1) IN
    [k \in 1..Len(rest) |-> memberOf(rest[k], indices)]

\* indices before line 131 has run
NoIndices ==
  [ accountName |-> -1, accountNumber |-> -1, nextDueDate |-> -1,
    nextDueAmount |-> -1, bps |-> -1, overdueAmount |-> -1 ]

\* What a call of parseCSV leaves behind: threw is TRUE when it raised
\* instead of returning; members and sheetUpdateDate are the object it
\* returned; allLines, headerRowIndex and indices are its locals as they
\* stood when it returned (headerRowIndex -1 and NoIndices when the call
\* returned before declaring them).
Outcome(threw, members, sheetUpdateDate, allLines, headerRowIndex, indices) ==
  [ threw |-> threw, members |-> members, sheetUpdateDate |-> sheetUpdateDate,
    allLines |-> allLines, headerRowIndex |-> headerRowIndex,
    indices |-> indices ]

\* parseCSV (lines 67-154).  splitRow reads row.length, which raises a
\* TypeError when the line handed to it is undefined.
parseCSV(t) ==
  LET allLines == allLinesOf(t) IN
    IF hasNoLines(allLines)
    THEN Outcome(FALSE, <<>>, NA, allLines, -1, NoIndices)
    ELSE IF at(allLines, 0) = Undefined
    THEN Outcome(TRUE, <<>>, <<>>, allLines, -1, NoIndices)
    ELSE LET headerRowIndex == headerRowIndexOf(allLines) IN
      IF at(allLines, headerRowIndex) = Undefined
      THEN Outcome(TRUE, <<>>, <<>>, allLines, headerRowIndex, NoIndices)
      ELSE LET indices == indicesOf(headersOf(allLines, headerRowIndex)) IN
        Outcome(FALSE, membersOf(allLines, headerRowIndex, indices),
                sheetUpdateDateOf(allLines), allLines, headerRowIndex, indices)

(***************************************************************************)
(* formatDate (src/index.tsx 53-63)                                         *)
(***************************************************************************)
\* !dateStr || dateStr === 'N/A' || dateStr.trim() === ''
isBlankDate(d) == d = <<>> \/ d = NA \/ trim(d) = <<>>

\* faulty variant: more than 8 digits are rendered too
isEightDigits_atLeast(c) == Len(c) >= 8 /\ \A i \in 1..Len(c) : c[i] \in Digits

\* cleanStr.length === 8 && /^\d{8}$/.test(cleanStr)
isEightDigits(c) == Len(c) = 8 /\ \A i \in 1..Len(c) : c[i] \in Digits

\* faulty variant: day and month swapped
renderMDY_dayFirst(cleanStr) ==
  LET y == substring(cleanStr, 0, 4)
      m == substring(cleanStr, 4, 6)
      d == substring(cleanStr, 6, 8)
  IN d \o <<"/">> \o m \o <<"/">> \o y

\* `${m}/${d}/${y}`
renderMDY(cleanStr) ==
  LET y == substring(cleanStr, 0, 4)
      m == substring(cleanStr, 4, 6)
      d == substring(cleanStr, 6, 8)
  IN m \o <<"/">> \o d \o <<"/">> \o y

formatDate(d) ==
  IF isBlankDate(d) THEN NA
  ELSE LET cleanStr == stripNonDigits(d) IN
    IF isEightDigits(cleanStr) THEN renderMDY(cleanStr) ELSE d

(***************************************************************************)
(* Inputs                                                                   *)
(***************************************************************************)
\* All strings of at most n characters over the alphabet A
StringsUpTo(A, n) == UNION {[1..k -> A] : k \in 0..n}

MaxRowLen == 5
RowChars == {"a", COMMA, QUOTE, " "}

\* the two rows of the specification's quoting examples
RowNameDoe == <<"N", "a", "m", "e", COMMA, QUOTE, "D", "o", "e", COMMA, " ", "J", "o", "h", "n", QUOTE, COMMA, "1", "2", "3">>
RowSheSaid == <<"A", COMMA, QUOTE, "S", "h", "e", " ", "s", "a", "i", "d", " ", QUOTE, QUOTE, "h", "i", QUOTE, QUOTE, QUOTE, COMMA, "B">>

Rows == StringsUpTo(RowChars, MaxRowLen) \cup {RowNameDoe, RowSheSaid}

MaxLines == 3
\* Lines a sheet export is made of: blank lines, metadata, headers with and
\* without keywords, data rows with quoted, empty and missing cells
SampleLines ==
  { <<" ">>,   \* ' '
    <<"x">>,   \* 'x'
    <<"r", "e", "f">>,   \* 'ref'
    <<"m", "e", "m", "b", "e", "r">>,   \* 'member'
    <<"x", "n", "a", "m", "e", COMMA, "N", "a", "m", "e">>,   \* 'xname,Name'
    <<COMMA, "x">>,   \* ',x'
    <<"d", "u", "e", COMMA, "I", "D", COMMA, "b", "p", "s">>,   \* 'due,ID,bps'
    <<QUOTE, "a", COMMA, "b", QUOTE, COMMA, "c", CR>> }   \* '"a,b",c\r'

\* score-0 metadata lines put before the sampled lines, to reach the window
fillerLine == <<"x", LF>>
RECURSIVE filler(_)
filler(k) == IF k = 0 THEN <<>> ELSE fillerLine \o filler(k - 1)

RECURSIVE joinLines(_)
joinLines(ls) ==
  IF ls = <<>> THEN <<>>
  ELSE IF Len(ls) = 1 THEN ls[1]
  ELSE ls[1] \o <<LF>> \o joinLines(Tail(ls))

\* texts of up to MaxLines sampled lines, bare or after one metadata line
ShortPrefixes == {<<>>, fillerLine}
\* texts of fewer sampled lines after a byte-order mark, or after enough
\* metadata lines to put the sampled lines at the edge of the window
LongPrefixes == {<<BOM>>, filler(HeaderWindow - 1), filler(HeaderWindow)}

Texts ==
  { pre \o joinLines(ls) :
      pre \in ShortPrefixes, ls \in StringsUpTo(SampleLines, MaxLines) }
    \cup { pre \o joinLines(ls) :
             pre \in LongPrefixes, ls \in StringsUpTo(SampleLines, MaxLines - 1) }

MaxDateLen == 8
DateChars == {"1", "2", "/", " "}
DateSamples ==
  { <<"N", "/", "A">>,   \* 'N/A'
    <<"2", "0", "2", "4", "0", "6", "1", "5">>,   \* '20240615'
    <<"J", "u", "n", "e", " ", "2", "0", "2", "4">>,   \* 'June 2024'
    <<"0", "6", "/", "1", "5", "/", "2", "0", "2", "4">>,   \* '06/15/2024'
    <<"2", "0", "2", "4", "-", "0", "6", "-", "1", "5">>,   \* '2024-06-15'
    <<"1", "2", "3", "4", "5", "6", "7", "8", "9">>,   \* '123456789'
    <<" ", "N", "/", "A">>,   \* ' N/A'
    <<"	">> }   \* '\t'

Dates == StringsUpTo(DateChars, MaxDateLen) \cup DateSamples

(***************************************************************************)
(* The calls                                                                *)
(***************************************************************************)
\* parsed before parseCSV has been called
NoResult == Outcome(FALSE, <<>>, <<>>, <<>>, -1, NoIndices)

AppIdle ==
  /\ data = <<>>
  /\ lastSync = <<>>
  /\ loading = FALSE
  /\ storage = <<>>
  /\ runs = <<>>
  /\ lastEnded = "none"

InitRow ==
  /\ pc = "call"
  /\ row \in Rows
  /\ cells = <<>>
  /\ text = <<>> /\ parsed = NoResult
  /\ dateStr = <<>> /\ shown = <<>>
  /\ AppIdle

CallSplitRow ==
  /\ pc = "call"
  /\ cells' = splitRow(row)
  /\ pc' = "done"
  /\ UNCHANGED <<row, text, parsed, dateStr, shown, appVars>>

SpecRow == InitRow /\ [][CallSplitRow]_vars

InitParse ==
  /\ pc = "call"
  /\ text \in Texts
  /\ parsed = NoResult
  /\ row = <<>> /\ cells = <<>>
  /\ dateStr = <<>> /\ shown = <<>>
  /\ AppIdle

CallParseCSV ==
  /\ pc = "call"
  /\ parsed' = parseCSV(text)
  /\ pc' = "done"
  /\ UNCHANGED <<row, cells, text, dateStr, shown, appVars>>

SpecParse == InitParse /\ [][CallParseCSV]_vars

InitDate ==
  /\ pc = "call"
  /\ dateStr \in Dates
  /\ shown = <<>>
  /\ row = <<>> /\ cells = <<>>
  /\ text = <<>> /\ parsed = NoResult
  /\ AppIdle

CallFormatDate ==
  /\ pc = "call"
  /\ shown' = formatDate(dateStr)
  /\ pc' = "done"
  /\ UNCHANGED <<row, cells, text, parsed, dateStr, appVars>>

SpecDate == InitDate /\ [][CallFormatDate]_vars

(***************************************************************************)
(* App: fetchData (src/index.tsx 239-262)                                   *)
(***************************************************************************)
BACKSLASH == "\\"

\* JSON.stringify of one character of a string
jsonEscapeChar(c) ==
  IF c = QUOTE THEN <<BACKSLASH, QUOTE>>
  ELSE IF c = BACKSLASH THEN <<BACKSLASH, BACKSLASH>>
  ELSE IF c = LF THEN <<BACKSLASH, "n">>
  ELSE IF c = CR THEN <<BACKSLASH, "r">>
  ELSE IF c = "\t" THEN <<BACKSLASH, "t">>
  ELSE <<c>>

RECURSIVE jsonEscape(_)
jsonEscape(s) ==
  IF s = <<>> THEN <<>> ELSE jsonEscapeChar(Head(s)) \o jsonEscape(Tail(s))

\* JSON.stringify of a string: its JSON string literal
jsonQuote(s) == <<QUOTE>> \o jsonEscape(s) \o <<QUOTE>>

jsonUnescapeChar(c) ==
  IF c = "n" THEN LF ELSE IF c = "r" THEN CR ELSE IF c = "t" THEN "\t" ELSE c

RECURSIVE jsonUnescape(_)
jsonUnescape(s) ==
  IF s = <<>> THEN <<>>
  ELSE IF Head(s) = BACKSLASH /\ Len(s) >= 2
  THEN <<jsonUnescapeChar(s[2])>> \o jsonUnescape(SubSeq(s, 3, Len(s)))
  ELSE <<Head(s)>> \o jsonUnescape(Tail(s))

\* JSON.parse of a JSON string literal
jsonUnquote(j) == jsonUnescape(SubSeq(j, 2, Len(j) - 1))

\* JSON.stringify({ members, lastSync: sheetUpdateDate }): the JSON text,
\* kept as the tree of its string literals
jsonStringify(members, sheetUpdateDate) ==
  [ members |-> [k \in 1..Len(members) |->
                   [f \in DOMAIN members[k] |-> jsonQuote(members[k][f])]],
    lastSync |-> jsonQuote(sheetUpdateDate) ]

\* JSON.parse(saved)
jsonParse(saved) ==
  [ members |-> [k \in 1..Len(saved.members) |->
                   [f \in DOMAIN saved.members[k] |-> jsonUnquote(saved.members[k][f])]],
    lastSync |-> jsonUnquote(saved.lastSync) ]

\* faulty variant: an empty parse result is stored too
hasMembers_always(members) == TRUE

\* if (members.length > 0)
hasMembers(members) == Len(members) > 0

MaxInFlight == 2

\* the texts response.text() resolves to: an empty export, a header alone,
\* and two exports with records (one with a quote inside a cell)
FetchTexts ==
  { <<>>,
    <<"x">>,
    <<"1", LF, "n", "a", "m", "e", LF, "a">>,
    <<"2", LF, "n", "a", "m", "e", LF, "a", LF, QUOTE, "b", QUOTE, QUOTE, QUOTE>> }

\* what an earlier session's fetchData may have left in localStorage
StoredBefore ==
  { <<jsonStringify(parseCSV(t).members, parseCSV(t).sheetUpdateDate)>> :
      t \in {u \in FetchTexts : hasMembers(parseCSV(u).members)} }

InitApp ==
  /\ data = <<>>
  /\ lastSync = <<>>
  /\ loading = FALSE
  /\ storage \in {<<>>} \cup StoredBefore
  /\ runs = [i \in 1..MaxInFlight |-> "idle"]
  /\ lastEnded = "none"
  /\ pc = "call"
  /\ row = <<>> /\ cells = <<>>
  /\ text = <<>> /\ parsed = NoResult
  /\ dateStr = <<>> /\ shown = <<>>

\* fetchData up to its first await: setLoading(true); await fetch(...)
StartFetch(i) ==
  /\ runs[i] = "idle"
  /\ runs' = [runs EXCEPT ![i] = "fetch"]
  /\ loading' = TRUE
  /\ UNCHANGED <<data, lastSync, storage, lastEnded, callVars>>

\* the catch block and the finally block (lines 251-261)
Catch(i) ==
  /\ IF storage # <<>>
     THEN /\ data' = jsonParse(storage[1]).members
          /\ lastSync' = jsonParse(storage[1]).lastSync
          /\ lastEnded' = "restored"
     ELSE /\ UNCHANGED <<data, lastSync>>
          /\ lastEnded' = "failed"
  /\ loading' = FALSE
  /\ runs' = [runs EXCEPT ![i] = "idle"]
  /\ UNCHANGED <<storage, callVars>>

\* fetch resolves with response.ok: on to await response.text()
FetchResolvesOk(i) ==
  /\ runs[i] = "fetch"
  /\ runs' = [runs EXCEPT ![i] = "text"]
  /\ UNCHANGED <<data, lastSync, loading, storage, lastEnded, callVars>>

\* fetch resolves with !response.ok: throw new Error(...)
FetchResolvesNotOk(i) == runs[i] = "fetch" /\ Catch(i)

\* fetch rejects
FetchRejects(i) == runs[i] = "fetch" /\ Catch(i)

\* response.text() rejects
TextRejects(i) == runs[i] = "text" /\ Catch(i)

\* response.text() resolves with t: lines 245-250, then the finally block
TextResolves(i, t) ==
  /\ runs[i] = "text"
  /\ LET r == parseCSV(t) IN
       IF r.threw THEN Catch(i)
       ELSE /\ IF hasMembers(r.members)
               THEN /\ data' = r.members
                    /\ lastSync' = r.sheetUpdateDate
                    /\ storage' = <<jsonStringify(r.members, r.sheetUpdateDate)>>
                    /\ lastEnded' = "stored"
               ELSE /\ UNCHANGED <<data, lastSync, storage>>
                    /\ lastEnded' = "kept"
            /\ loading' = FALSE
            /\ runs' = [runs EXCEPT ![i] = "idle"]
            /\ UNCHANGED callVars

NextApp ==
  \E i \in 1..MaxInFlight :
    \/ StartFetch(i)
    \/ FetchResolvesOk(i)
    \/ FetchResolvesNotOk(i)
    \/ FetchRejects(i)
    \/ TextRejects(i)
    \/ \E t \in FetchTexts : TextResolves(i, t)

SpecApp == InitApp /\ [][NextApp]_vars

(***************************************************************************)
(* Reference definitions the properties are stated with                     *)
(***************************************************************************)
Min(S) == CHOOSE x \in S : \A y \in S : x <= y
Max(S) == CHOOSE x \in S : \A y \in S : x >= y

AllWhiteSpace(s) == \A i \in 1..Len(s) : s[i] \in WhiteSpace

\* s without its leading and trailing whitespace, by the positions of its
\* first and last non-whitespace character
RefTrim(s) ==
  LET inked == {i \in 1..Len(s) : s[i] \notin WhiteSpace} IN
    IF inked = {} THEN <<>> ELSE SubSeq(s, Min(inked), Max(inked))

\* The quote-aware reading of a line as a sequence of events, left to right:
\* "sep" for a comma outside quotes, "emit" for a character that goes into
\* the current field; a quote that opens or closes a quoted part gives no
\* event, and a doubled quote inside a quoted part gives one emitted quote.
RECURSIVE RefEvents(_, _)
RefEvents(s, inQuotes) ==
  IF s = <<>> THEN <<>>
  ELSE IF inQuotes /\ Len(s) >= 2 /\ s[1] = QUOTE /\ s[2] = QUOTE
  THEN <<[kind |-> "emit", c |-> QUOTE]>> \o RefEvents(SubSeq(s, 3, Len(s)), inQuotes)
  ELSE IF s[1] = QUOTE
  THEN RefEvents(Tail(s), ~inQuotes)
  ELSE IF s[1] = COMMA /\ ~inQuotes
  THEN <<[kind |-> "sep", c |-> COMMA]>> \o RefEvents(Tail(s), inQuotes)
  ELSE <<[kind |-> "emit", c |-> s[1]]>> \o RefEvents(Tail(s), inQuotes)

\* the number of commas seen while inQuotes is false
RefSeparators(s) ==
  Cardinality({i \in 1..Len(RefEvents(s, FALSE)) : RefEvents(s, FALSE)[i].kind = "sep"})

\* the n-th field (1-based): what is emitted between separator n-1 and
\* separator n, trimmed
RefField(s, n) ==
  LET ev == RefEvents(s, FALSE)
      sepsBefore(i) == Cardinality({j \in 1..(i - 1) : ev[j].kind = "sep"})
      mine == SelectSeq([i \in 1..Len(ev) |-> [e |-> ev[i], f |-> sepsBefore(i) + 1]],
                        LAMBDA x : x.e.kind = "emit" /\ x.f = n)
  IN RefTrim([i \in 1..Len(mine) |-> mine[i].e.c])

RefSplit(s) == [n \in 1..(RefSeparators(s) + 1) |-> RefField(s, n)]

\* whether the line ends inside a quoted part
RECURSIVE RefEndsInQuotes(_, _)
RefEndsInQuotes(s, inQuotes) ==
  IF s = <<>> THEN inQuotes
  ELSE IF inQuotes /\ Len(s) >= 2 /\ s[1] = QUOTE /\ s[2] = QUOTE
  THEN RefEndsInQuotes(SubSeq(s, 3, Len(s)), inQuotes)
  ELSE IF s[1] = QUOTE THEN RefEndsInQuotes(Tail(s), ~inQuotes)
  ELSE RefEndsInQuotes(Tail(s), inQuotes)

(***************************************************************************)
(* C1                                                                       *)
(***************************************************************************)
\* C1: parseCSV is total: whatever the text (empty, whitespace only, one
\* character, not CSV at all) the call returns a sequence of records and a
\* non-empty metadataDate and never raises; for empty or whitespace-only
\* text it returns zero records and metadataDate "N/A".
C1_ParseTotal ==
  pc = "done" =>
    /\ parsed.threw = FALSE
    /\ DOMAIN parsed.members = 1..Len(parsed.members)
    /\ parsed.sheetUpdateDate # <<>>
    /\ AllWhiteSpace(text) =>
         parsed.members = <<>> /\ parsed.sheetUpdateDate = NA

\* a whitespace-only, non-empty text has been parsed to zero records
C1_Witness ==
  /\ pc = "done"
  /\ text # <<>> /\ AllWhiteSpace(text)
  /\ parsed.members = <<>> /\ parsed.sheetUpdateDate = NA /\ ~parsed.threw

(***************************************************************************)
(* C2                                                                       *)
(***************************************************************************)
NameCell == <<"N", "a", "m", "e">>
DoeJohnCell == <<"D", "o", "e", COMMA, " ", "J", "o", "h", "n">>
Cell123 == <<"1", "2", "3">>
SheSaidHiCell == <<"S", "h", "e", " ", "s", "a", "i", "d", " ", QUOTE, "h", "i", QUOTE>>

\* C2: for every line, splitRow returns the reference quote-aware split:
\* commas split only outside quotes, a quote toggles inQuotes and is not
\* emitted, a doubled quote inside quotes emits one quote, every field is
\* trimmed; there are exactly 1 + (commas outside quotes) fields, so at
\* least one, and after an unterminated quote the rest of the line stays in
\* the last field.  The two example rows give the fields the spec lists.
C2_SplitRowIsReference ==
  pc = "done" =>
    /\ cells = RefSplit(row)
    /\ Len(cells) = 1 + RefSeparators(row)
    /\ Len(cells) >= 1
    /\ RefEndsInQuotes(row, FALSE) =>
         LET lastQuote == Max({i \in 1..Len(row) : row[i] = QUOTE}) IN
           Len(cells) = 1 + RefSeparators(SubSeq(row, 1, lastQuote - 1))
    /\ row = RowNameDoe => cells = <<NameCell, DoeJohnCell, Cell123>>
    /\ row = RowSheSaid => Len(cells) = 3 /\ cells[2] = SheSaidHiCell

\* a line with a doubled quote inside quotes and a comma inside quotes has
\* been split
C2_Witness ==
  /\ pc = "done"
  /\ row = RowSheSaid
  /\ cells[2] = SheSaidHiCell

(***************************************************************************)
(* C9                                                                       *)
(***************************************************************************)
\* the digits of s, in order
RefDigits(s) ==
  LET at9 == {i \in 1..Len(s) : s[i] \in Digits}
      nth(n) == CHOOSE i \in at9 : Cardinality({j \in at9 : j < i}) = n - 1
  IN [n \in 1..Cardinality(at9) |-> s[nth(n)]]

RefFormatDate(raw) ==
  IF raw = <<>> \/ raw = NA \/ AllWhiteSpace(raw) THEN NA
  ELSE LET d == RefDigits(raw) IN
    IF Len(d) = 8
    THEN <<d[5], d[6], "/", d[7], d[8], "/", d[1], d[2], d[3], d[4]>>
    ELSE raw

\* C9: formatDate(raw) is "N/A" for an empty, "N/A" or all-whitespace raw;
\* otherwise, when exactly 8 digits d1..d8 remain after removing every
\* non-digit, it is d5d6/d7d8/d1d2d3d4; otherwise it is raw unchanged.
C9_FormatDate == pc = "done" => shown = RefFormatDate(dateStr)

Date20240615 == <<"2", "0", "2", "4", "0", "6", "1", "5">>
Date06152024 == <<"0", "6", "/", "1", "5", "/", "2", "0", "2", "4">>

\* formatDate("20240615") has returned "06/15/2024"
C9_Witness == pc = "done" /\ dateStr = Date20240615 /\ shown = Date06152024

(***************************************************************************)
(* Reference definitions for the header locator and the column mapper       *)
(***************************************************************************)
\* one entry per keyword of the six lists: <<field, position in its list>>
KeywordEntries ==
  UNION {{<<f, n>> : n \in 1..Len(keywords[f])} : f \in Fields}

EntryKeyword(e) == stripNonAlnum(keywords[e[1]][e[2]])

\* the normalized cells of a line
RefCells(line) == {normalize(RefSplit(line)[j]) : j \in 1..Len(RefSplit(line))}

Occurs(k, cellSet) == \E c \in cellSet : includes(c, k)

\* score counting keyword list entries
EntryScore(line) ==
  LET cs == RefCells(line) IN
    Cardinality({e \in KeywordEntries : Occurs(EntryKeyword(e), cs)})

\* score counting distinct normalized keywords
DistinctScore(line) ==
  LET cs == RefCells(line) IN
    Cardinality({k \in {EntryKeyword(e) : e \in KeywordEntries} : Occurs(k, cs)})

\* the 1-based position of the earliest maximum of a non-empty sequence
EarliestMax(scores) ==
  CHOOSE i \in 1..Len(scores) :
    /\ \A j \in 1..Len(scores) : scores[j] <= scores[i]
    /\ \A j \in 1..(i - 1) : scores[j] < scores[i]

ExaminedRows(lines) ==
  IF Len(lines) < HeaderWindow THEN Len(lines) ELSE HeaderWindow

(***************************************************************************)
(* C3                                                                       *)
(***************************************************************************)
\* C3 as stated: the header row is the earliest row, among the first
\* min(10, totalRows) non-empty lines, with the maximal number of distinct
\* normalized keywords occurring in its normalized cells.
C3_AsStated ==
  (pc = "done" /\ Len(parsed.allLines) >= 1) =>
    LET lines == parsed.allLines
        scores == [i \in 1..ExaminedRows(lines) |-> DistinctScore(lines[i])]
    IN parsed.headerRowIndex = EarliestMax(scores) - 1

\* C3 (amended): the header row is the earliest row, among the first
\* min(10, totalRows) non-empty lines, whose score is maximal, where the
\* score counts the entries of the six keyword lists (41 of them: "member"
\* and "member#" normalize to the same keyword and count twice) whose
\* normalized keyword occurs in a normalized cell of the row.  A later row
\* wins only with a strictly greater score, a row at index 10 or beyond is
\* never chosen, and row 0 is chosen when every examined row scores 0.
C3_HeaderIsEarliestMaxByEntries ==
  (pc = "done" /\ Len(parsed.allLines) >= 1) =>
    LET lines == parsed.allLines
        scores == [i \in 1..ExaminedRows(lines) |-> EntryScore(lines[i])]
        h == parsed.headerRowIndex
    IN /\ h = EarliestMax(scores) - 1
       /\ h >= 0 /\ h < HeaderWindow /\ h < Len(lines)
       /\ \A j \in 1..h : scores[j] < scores[h + 1]
       /\ (\A j \in 1..Len(scores) : scores[j] = 0) => h = 0

\* a text of more than 10 non-empty lines whose header was found at a later
\* row, with a higher-scoring row left outside the window
C3_Witness ==
  /\ pc = "done"
  /\ Len(parsed.allLines) > HeaderWindow
  /\ parsed.headerRowIndex > 0
  /\ \E i \in (HeaderWindow + 1)..Len(parsed.allLines) :
        EntryScore(parsed.allLines[i]) >
          EntryScore(parsed.allLines[parsed.headerRowIndex + 1])


(***************************************************************************)
(* C4                                                                       *)
(***************************************************************************)
\* the normalized cells of the chosen header row
RefHeaderCells(p) ==
  LET r == RefSplit(p.allLines[p.headerRowIndex + 1]) IN
    [j \in 1..Len(r) |-> normalize(r[j])]

\* the 1-based header positions whose cell equals a keyword of field f
RefExactAt(H, f) ==
  {j \in 1..Len(H) : \E e \in KeywordEntries : e[1] = f /\ H[j] = EntryKeyword(e)}

\* the 1-based header positions whose cell contains a keyword of field f
RefSubstringAt(H, f) ==
  {j \in 1..Len(H) :
     \E e \in KeywordEntries : e[1] = f /\ includes(H[j], EntryKeyword(e))}

\* C4: each field maps to the leftmost header cell equal to one of its
\* normalized keywords when there is one, even if a cell further left only
\* contains a keyword; without an exact match it maps to the leftmost cell
\* containing one of its keywords.
C4_ExactBeforeSubstring ==
  (pc = "done" /\ Len(parsed.allLines) >= 1) =>
    \A f \in Fields :
      LET H == RefHeaderCells(parsed)
          E == RefExactAt(H, f)
          S == RefSubstringAt(H, f)
      IN /\ E # {} => parsed.indices[f] = Min(E) - 1
         /\ (E = {} /\ S # {}) => parsed.indices[f] = Min(S) - 1

\* a header with a substring match left of an exact match; the field went to
\* the exact one
C4_Witness ==
  /\ pc = "done" /\ Len(parsed.allLines) >= 1
  /\ \E f \in Fields :
       LET H == RefHeaderCells(parsed)
           E == RefExactAt(H, f)
           S == RefSubstringAt(H, f)
       IN E # {} /\ Min(S) < Min(E) /\ parsed.indices[f] = Min(E) - 1

(***************************************************************************)
(* C5, C6, C7                                                               *)
(***************************************************************************)
Default(f) ==
  IF f \in {"accountName", "accountNumber", "nextDueDate"} THEN NA ELSE ZERO

\* the k-th line after the header row (k from 1)
DataLine(p, k) == p.allLines[p.headerRowIndex + 1 + k]

\* the cell of the line at 0-based column col, or dflt when the column is -1,
\* beyond the end of the row, or empty
CellOr(line, col, dflt) ==
  LET v == RefSplit(line) IN
    IF col >= 0 /\ col < Len(v) /\ v[col + 1] # <<>> THEN v[col + 1] ELSE dflt

\* C5: without any keyword match for accountName in the header row the field
\* is read from column 0 of every data row, without any for accountNumber
\* that field is read from column 1; the other four fields map to -1 when
\* unmatched.
C5_PositionalFallback ==
  (pc = "done" /\ Len(parsed.allLines) >= 1) =>
    LET H == RefHeaderCells(parsed) IN
      /\ RefSubstringAt(H, "accountName") = {} =>
           /\ parsed.indices.accountName = 0
           /\ \A k \in 1..Len(parsed.members) :
                parsed.members[k].accountName = CellOr(DataLine(parsed, k), 0, NA)
      /\ RefSubstringAt(H, "accountNumber") = {} =>
           /\ parsed.indices.accountNumber = 1
           /\ \A k \in 1..Len(parsed.members) :
                parsed.members[k].accountNumber = CellOr(DataLine(parsed, k), 1, NA)
      /\ \A f \in Fields \ {"accountName", "accountNumber"} :
           RefSubstringAt(H, f) = {} => parsed.indices[f] = -1

\* a header without keywords, and a record whose name came from column 0 and
\* whose number came from column 1
C5_Witness ==
  /\ pc = "done" /\ Len(parsed.allLines) >= 1
  /\ \A f \in Fields : RefSubstringAt(RefHeaderCells(parsed), f) = {}
  /\ \E k \in 1..Len(parsed.members) :
       /\ Len(RefSplit(DataLine(parsed, k))) >= 2
       /\ parsed.members[k].accountName = RefSplit(DataLine(parsed, k))[1]
       /\ parsed.members[k].accountNumber = RefSplit(DataLine(parsed, k))[2]
       /\ parsed.members[k].accountName # NA
       /\ parsed.members[k].accountNumber # NA

\* C6: every record has all six fields as non-empty strings: a field whose
\* column is -1, lies beyond the end of the data row or holds an empty cell
\* is its default ("N/A" for accountName, accountNumber, nextDueDate; "0.00"
\* for nextDueAmount, bps, overdueAmount), otherwise it is the tokenized cell
\* at the mapped column.
C6_FieldsPopulated ==
  pc = "done" =>
    \A k \in 1..Len(parsed.members) :
      /\ DOMAIN parsed.members[k] = Fields
      /\ \A f \in Fields :
           LET v == RefSplit(DataLine(parsed, k))
               idx == parsed.indices[f]
               absent == idx = -1 \/ idx >= Len(v) \/ v[idx + 1] = <<>>
           IN /\ parsed.members[k][f] # <<>>
              /\ absent => parsed.members[k][f] = Default(f)
              /\ ~absent => parsed.members[k][f] = v[idx + 1]

\* one record with a field of column -1, a field beyond the end of its row,
\* a field of an empty cell and a field taken from its cell
C6_Witness ==
  /\ pc = "done"
  /\ \E k \in 1..Len(parsed.members) :
       LET v == RefSplit(DataLine(parsed, k)) IN
         /\ \E f \in Fields : parsed.indices[f] = -1 /\ parsed.members[k][f] = Default(f)
         /\ \E f \in Fields : parsed.indices[f] >= Len(v) /\ parsed.members[k][f] = Default(f)
         /\ \E f \in Fields :
              /\ parsed.indices[f] >= 0 /\ parsed.indices[f] < Len(v)
              /\ v[parsed.indices[f] + 1] = <<>>
              /\ parsed.members[k][f] = Default(f)
         /\ \E f \in Fields :
              /\ parsed.indices[f] >= 0 /\ parsed.indices[f] < Len(v)
              /\ v[parsed.indices[f] + 1] # <<>>
              /\ parsed.members[k][f] = v[parsed.indices[f] + 1]

\* the record of one data line under a column map
RefRecord(line, indices) == [f \in Fields |-> CellOr(line, indices[f], Default(f))]

\* C7: with n non-empty lines and header index h there are n - h - 1
\* records, and the k-th record (k from 0) is built from line h + 1 + k: one
\* record per line after the header, in input order, none for the lines at
\* or before the header, none dropped for being short.
C7_OneRecordPerDataLine ==
  (pc = "done" /\ Len(parsed.allLines) >= 1) =>
    LET n == Len(parsed.allLines)
        h == parsed.headerRowIndex
    IN /\ Len(parsed.members) = n - h - 1
       /\ \A k \in 0..(n - h - 2) :
            parsed.members[k + 1] = RefRecord(parsed.allLines[h + 1 + k + 1], parsed.indices)

\* a header found below a metadata line, followed by two different data
\* rows, one of them a single cell
C7_Witness ==
  /\ pc = "done"
  /\ parsed.headerRowIndex >= 1
  /\ Len(parsed.members) = 2
  /\ parsed.members[1] # parsed.members[2]
  /\ \E k \in 1..2 : Len(RefSplit(DataLine(parsed, k))) = 1

(***************************************************************************)
(* C8                                                                       *)
(***************************************************************************)
\* the physical lines of a text: the pieces between line feeds, each without
\* the carriage return that precedes its line feed, the first without a
\* leading byte-order mark
RefPhysicalLines(t) ==
  LET body == IF t # <<>> /\ t[1] = BOM THEN SubSeq(t, 2, Len(t)) ELSE t
      lfs == {i \in 1..Len(body) : body[i] = LF}
      nth(n) == CHOOSE i \in lfs : Cardinality({j \in lfs : j < i}) = n - 1
      first(n) == IF n = 1 THEN 1 ELSE nth(n - 1) + 1
      last(n) ==
        IF n = Cardinality(lfs) + 1 THEN Len(body)
        ELSE IF nth(n) > first(n) /\ body[nth(n) - 1] = CR THEN nth(n) - 2
        ELSE nth(n) - 1
  IN [n \in 1..(Cardinality(lfs) + 1) |-> SubSeq(body, first(n), last(n))]

\* C8: metadataDate is the first tokenized cell of the first line that is
\* not empty or all whitespace, or "N/A" if that cell is empty, whichever row
\* the header locator chooses.
C8_MetadataDateIsFirstCell ==
  pc = "done" =>
    LET ls == RefPhysicalLines(text)
        inked == {n \in 1..Len(ls) : ~AllWhiteSpace(ls[n])}
    IN inked # {} =>
         LET a1 == RefSplit(ls[Min(inked)])[1] IN
           parsed.sheetUpdateDate = (IF a1 = <<>> THEN NA ELSE a1)

\* a text with a byte-order mark whose header was found below the first
\* line; metadataDate is the first line's first cell
C8_Witness ==
  /\ pc = "done"
  /\ text # <<>> /\ text[1] = BOM
  /\ parsed.headerRowIndex >= 1
  /\ parsed.sheetUpdateDate # NA
  /\ parsed.sheetUpdateDate = RefSplit(parsed.allLines[1])[1]


(***************************************************************************)
(* C10                                                                      *)
(***************************************************************************)
\* data, lastSync and the stored item did not change in the step
C10_Untouched == data' = data /\ lastSync' = lastSync /\ storage' = storage

\* the step wrote all three from one parse result with at least one record
C10_WroteParseResult ==
  \E t \in FetchTexts :
    LET r == parseCSV(t) IN
      /\ Len(r.members) > 0
      /\ data' = r.members
      /\ lastSync' = r.sheetUpdateDate
      /\ storage' = <<jsonStringify(r.members, r.sheetUpdateDate)>>

\* the step replaced data and lastSync by the stored pair
C10_TookStoredPair ==
  /\ storage # <<>> /\ storage' = storage
  /\ data' = jsonParse(storage[1]).members
  /\ lastSync' = jsonParse(storage[1]).lastSync

C10_RunEnded == \E i \in DOMAIN runs : runs[i] # "idle" /\ runs'[i] = "idle"

C10_Step ==
  /\ C10_Untouched \/ C10_WroteParseResult \/ C10_TookStoredPair
  /\ storage' # storage => C10_WroteParseResult
  /\ (C10_RunEnded /\ lastEnded' = "kept") => C10_Untouched
  /\ (C10_RunEnded /\ lastEnded' \in {"restored", "failed"}) =>
       IF storage # <<>> THEN C10_TookStoredPair ELSE C10_Untouched
  /\ Len(data) > 0 => Len(data') > 0

\* a non-empty member list is the list of a fetched text, unchanged by its
\* way through the stored item, and the stored item holds it with lastSync
C10_ListIsStored ==
  Len(data) > 0 =>
    /\ storage = <<jsonStringify(data, lastSync)>>
    /\ \E t \in FetchTexts :
         data = parseCSV(t).members /\ lastSync = parseCSV(t).sheetUpdateDate

C11_AsStated == pc = "done" => formatDate(shown) = shown

\* C11 (amended): formatDate(formatDate(s)) = formatDate(s) for every s that
\* does not hold exactly 8 digits, and for an s with exactly 8 digits d1..d8
\* when d1d2d3d4 = d5d6d7d8; for every s with exactly 8 digits the second
\* application returns d1d2/d3d4/d5d6d7d8, so a date already rendered as
\* MM/DD/YYYY is rendered again, not returned unchanged.
C11_IdempotentOffEightDigits ==
  pc = "done" =>
    LET d == RefDigits(dateStr) IN
      /\ Len(d) # 8 => formatDate(shown) = shown
      /\ Len(d) = 8 =>
           /\ formatDate(shown) =
                <<d[1], d[2], "/", d[3], d[4], "/", d[5], d[6], d[7], d[8]>>
           /\ (formatDate(shown) = shown) <=>
                (SubSeq(d, 1, 4) = SubSeq(d, 5, 8))

Date20240615Again == <<"2", "0", "/", "2", "4", "/", "0", "6", "1", "5">>

\* formatDate("20240615") has returned "06/15/2024", which formatDate turns
\* into "20/24/0615"
C11_Witness ==
  /\ pc = "done"
  /\ dateStr = Date20240615
  /\ shown = Date06152024
  /\ formatDate(shown) = Date20240615Again

====
